---- MODULE Spec2Model ----
(***************************************************************************)
(* Model of the catwalk example tools: the model-selector wizard           *)
(* (requirement-weighted scoring, ranking, bubbletea Update loop), and the *)
(* find-models filter / score / interactive pipeline.                      *)
(*                                                                         *)
(* Money is kept in integers: one dollar is Unit = 10^MaxInput units, so   *)
(* every decimal a user can type in MaxInput characters is exact.          *)
(***************************************************************************)
EXTENDS Integers, Sequences, FiniteSets, TLC

VARIABLES
    prog,          \* which tool's main is running
    tiesKept,      \* whether this build's sort.Slice leaves equal elements in input order
    catalog,       \* what main fetched, in catalog order: the models, or the providers
    allModels,     \* model-selector: model.allModels
    step,          \* model-selector: model.step
    requirements,  \* model-selector: model.requirements
    items,         \* model-selector: the items of model.list
    cursor,        \* model-selector: model.list.Index()
    choices,       \* model-selector: model.choices
    flags,         \* find-models, list-models: the command-line flags
    models,        \* find-models: allModels / model.models; list-models: provider.Models
    filtered,      \* find-models: matches / model.filtered; list-models: models
    findStep,      \* find-models: model.step
    currentInput,  \* find-models: model.currentInput
    args,          \* cost calculator, model-info, chat bot: the command-line flags
    results,       \* cost calculator: the []costResult handed to displayCostResult
    found,         \* model-info: foundModel, foundProvider; chat bot: session.model, provider
    messages,      \* chat bot: session.messages
    totalTokens,   \* chat bot: session.totalTokens
    totalCost,     \* chat bot: session.totalCost
    exchanges,     \* chat bot: the usage of every exchange that got a reply, in order
    err,           \* the error client.GetProviders returned ("nil" for none)
    status,        \* where main is: a wizard is "running", "quit" (tea.Quit) or "panic";
                   \* a command-line run goes "filter", "display" / "sort", "done",
                   \* or "start", then "done" or "fatal" (log.Fatal);
                   \* the chat loop is at its "prompt", "calling" the API, or "ended"
    lastMsg,       \* the message handled by the last Update ("" before the first)
    prev           \* the program state before the last Update

vars == <<prog, tiesKept, catalog, allModels, step, requirements, items, cursor, choices,
          flags, models, filtered, findStep, currentInput, args, results, found,
          messages, totalTokens, totalCost, exchanges, err, status, lastMsg, prev>>

selectorVars == <<allModels, step, requirements, items, cursor, choices>>
findVars == <<flags, models, filtered, findStep, currentInput>>
calcVars == <<args, results, found>>
chatVars == <<messages, totalTokens, totalCost, exchanges>>

----------------------------------------------------------------------------
\* Bounds

MaxModels == 7
MaxInput == 2

RECURSIVE Pow10(_)
Pow10(n) == IF n = 0 THEN 1 ELSE 10 * Pow10(n - 1)

\* units per dollar
Unit == Pow10(MaxInput)

Min(a, b) == IF a < b THEN a ELSE b

----------------------------------------------------------------------------
\* The catalog (catwalk.Model fields the tools read)

Pool ==
    << [ID |-> "free", CostPer1MIn |-> 0, ContextWindow |-> 8000,
        CanReason |-> FALSE, SupportsImages |-> FALSE],
       [ID |-> "mini", CostPer1MIn |-> Unit \div 4, ContextWindow |-> 128000,
        CanReason |-> FALSE, SupportsImages |-> TRUE],
       [ID |-> "std", CostPer1MIn |-> 3 * Unit, ContextWindow |-> 200000,
        CanReason |-> TRUE, SupportsImages |-> TRUE],
       [ID |-> "pro", CostPer1MIn |-> 15 * Unit, ContextWindow |-> 400000,
        CanReason |-> TRUE, SupportsImages |-> FALSE],
       [ID |-> "long", CostPer1MIn |-> Unit \div 4, ContextWindow |-> 200000,
        CanReason |-> FALSE, SupportsImages |-> TRUE],
       [ID |-> "ultra", CostPer1MIn |-> 600 * Unit, ContextWindow |-> 1000000,
        CanReason |-> TRUE, SupportsImages |-> TRUE] >>

\* n models in catalog order, starting k places into the pool
Catalog(n, k) == [i \in 1..n |-> Pool[((i + k - 1) % Len(Pool)) + 1]]

Catalogs == {Catalog(n, k) : n \in 0..MaxModels, k \in 0..(Len(Pool) - 1)}

\* main: "Collect all models"; provider is the catalog position of the entry
CollectAllModels(cat) ==
    [i \in 1..Len(cat) |-> [model |-> cat[i], provider |-> i, score |-> 0, reasons |-> <<>>]]

----------------------------------------------------------------------------
\* step

stepBudget == 0
stepContext == 1
stepReasoning == 2
stepVision == 3
stepResults == 4

\* step (find-models)
findStepMaxCost == 0
findStepMinContext == 1
findStepCapabilities == 2
findStepResults == 3

----------------------------------------------------------------------------
\* sort.Slice(s, func(i, j) { s[i].score > s[j].score })

Reverse(s) == [i \in 1..Len(s) |-> s[Len(s) + 1 - i]]

\* no element has a strictly better one right after it
IsSortedDesc(s) == \A i \in 1..(Len(s) - 1) : ~(s[i + 1].score > s[i].score)

\* x goes after every element that is not less(x, element)
RECURSIVE InsertDesc(_, _)
InsertDesc(x, s) ==
    IF s = <<>> THEN <<x>>
    ELSE IF x.score > s[1].score THEN <<x>> \o s
    ELSE <<s[1]>> \o InsertDesc(x, Tail(s))

RECURSIVE InsertionSortDesc(_)
InsertionSortDesc(s) ==
    IF s = <<>> THEN <<>>
    ELSE InsertDesc(s[Len(s)], InsertionSortDesc(SubSeq(s, 1, Len(s) - 1)))

\* a sort that moves equal elements on every call, ordered input included
SortSliceAlwaysMoves(s) ==
    IF tiesKept THEN InsertionSortDesc(s) ELSE InsertionSortDesc(Reverse(s))

\* sort.Slice is not stable: the order of equal elements is fixed by the Go
\* release's algorithm (insertion sort keeps it, the partitioning of longer
\* slices does not); an input already in order is returned as it is.
SortSlice(s) ==
    IF IsSortedDesc(s) THEN s
    ELSE IF tiesKept THEN InsertionSortDesc(s)
    ELSE InsertionSortDesc(Reverse(s))

----------------------------------------------------------------------------
\* model-selector: parseBudget, parseContext

\* a table whose "0.5" case returns the next tier's value
parseBudgetShifted(s) ==
    CASE s = "0" -> 0
      [] s = "0.5" -> Unit
      [] s = "1.0" -> Unit
      [] s = "5.0" -> 5 * Unit
      [] s = "10.0" -> 10 * Unit
      [] s = "1000" -> 1000 * Unit
      [] OTHER -> 0

parseBudget(s) ==
    CASE s = "0" -> 0
      [] s = "0.5" -> Unit \div 2
      [] s = "1.0" -> Unit
      [] s = "5.0" -> 5 * Unit
      [] s = "10.0" -> 10 * Unit
      [] s = "1000" -> 1000 * Unit
      [] OTHER -> 0

parseContext(s) ==
    CASE s = "0" -> 0
      [] s = "32000" -> 32000
      [] s = "100000" -> 100000
      [] s = "200000" -> 200000
      [] s = "400000" -> 400000
      [] OTHER -> 0

----------------------------------------------------------------------------
\* model-selector: calculateScores

\* a budget rule that gives the bonus only when a budget is set
BudgetRuleWhenSet(m, req) ==
    IF req.budget > 0 /\ m.CostPer1MIn > req.budget
    THEN [delta |-> -100, reasons |-> <<"Over budget">>]
    ELSE IF req.budget > 0 /\ 2 * m.CostPer1MIn <= req.budget
    THEN [delta |-> 30, reasons |-> <<"Well under budget">>]
    ELSE [delta |-> 0, reasons |-> <<>>]

BudgetRule(m, req) ==
    IF req.budget > 0 /\ m.CostPer1MIn > req.budget
    THEN [delta |-> -100, reasons |-> <<"Over budget">>]
    ELSE IF 2 * m.CostPer1MIn <= req.budget
    THEN [delta |-> 30, reasons |-> <<"Well under budget">>]
    ELSE [delta |-> 0, reasons |-> <<>>]

ContextRule(m, req) ==
    IF m.ContextWindow >= req.contextSize
    THEN [delta |-> 20, reasons |-> <<"Meets context requirement">>]
    ELSE IF m.ContextWindow < req.contextSize
    THEN [delta |-> -50, reasons |-> <<"Below context requirement">>]
    ELSE [delta |-> 0, reasons |-> <<>>]

ReasoningRule(m, req) ==
    IF req.reasoning
    THEN IF m.CanReason
         THEN [delta |-> 25, reasons |-> <<"Has reasoning">>]
         ELSE [delta |-> -50, reasons |-> <<"No reasoning">>]
    ELSE [delta |-> 0, reasons |-> <<>>]

VisionRule(m, req) ==
    IF req.vision
    THEN IF m.SupportsImages
         THEN [delta |-> 25, reasons |-> <<"Has vision">>]
         ELSE [delta |-> -50, reasons |-> <<"No vision">>]
    ELSE [delta |-> 0, reasons |-> <<>>]

\* the loop body: score and reasons of one entry
ScoreEntry(mm, req) ==
    LET b == BudgetRule(mm.model, req)
        c == ContextRule(mm.model, req)
        r == ReasoningRule(mm.model, req)
        v == VisionRule(mm.model, req)
    IN [mm EXCEPT !.score = 100 + b.delta + c.delta + r.delta + v.delta,
                  !.reasons = b.reasons \o c.reasons \o r.reasons \o v.reasons]

\* a scoring pass that drops the candidates over budget instead of ranking them low
calculateScoresFiltering(ms, req) ==
    SortSlice(SelectSeq([i \in 1..Len(ms) |-> ScoreEntry(ms[i], req)],
                        LAMBDA mm : ~(req.budget > 0 /\ mm.model.CostPer1MIn > req.budget)))

calculateScores(ms, req) ==
    SortSlice([i \in 1..Len(ms) |-> ScoreEntry(ms[i], req)])

----------------------------------------------------------------------------
\* find-models: filterModels, scoreModels
\* A function that takes a slice is modelled by what it returns and by what it
\* leaves in the caller's slice, which shares its elements.

\* main: "Collect all models" of find-models
CollectModelMatches(cat) ==
    [i \in 1..Len(cat) |-> [model |-> cat[i], provider |-> i, score |-> 0]]

\* the loop body of filterModels: mm is appended unless a filter skips it
Passes(mm, maxCost, minContext, reasoning, vision) ==
    /\ ~(maxCost > 0 /\ mm.model.CostPer1MIn > maxCost)
    /\ ~(minContext > 0 /\ mm.model.ContextWindow < minContext)
    /\ ~(reasoning /\ ~mm.model.CanReason)
    /\ ~(vision /\ ~mm.model.SupportsImages)

RECURSIVE AppendPassing(_, _, _, _, _, _)
AppendPassing(acc, ms, maxCost, minContext, reasoning, vision) ==
    IF ms = <<>> THEN acc
    ELSE AppendPassing(
            IF Passes(ms[1], maxCost, minContext, reasoning, vision)
            THEN Append(acc, ms[1]) ELSE acc,
            Tail(ms), maxCost, minContext, reasoning, vision)

\* the survivors written over the front of the caller's slice
\* (filtered := models[:0] in place of var filtered []modelMatch)
filterModelsInPlace(ms, maxCost, minContext, reasoning, vision) ==
    LET out == AppendPassing(<<>>, ms, maxCost, minContext, reasoning, vision)
    IN [filtered |-> out, models |-> out \o SubSeq(ms, Len(out) + 1, Len(ms))]

\* a cost filter that also drops a model priced exactly at the limit (>= for >)
filterModelsStrict(ms, maxCost, minContext, reasoning, vision) ==
    [filtered |-> SelectSeq(AppendPassing(<<>>, ms, maxCost, minContext, reasoning, vision),
                            LAMBDA mm : ~(maxCost > 0 /\ mm.model.CostPer1MIn = maxCost)),
     models |-> ms]

\* a loop that steps over the element following each one it drops
RECURSIVE SkipAfterDrop(_, _, _, _, _, _)
SkipAfterDrop(acc, ms, maxCost, minContext, reasoning, vision) ==
    IF ms = <<>> THEN acc
    ELSE IF Passes(ms[1], maxCost, minContext, reasoning, vision)
    THEN SkipAfterDrop(Append(acc, ms[1]), Tail(ms), maxCost, minContext, reasoning, vision)
    ELSE IF Len(ms) = 1 THEN acc
    ELSE SkipAfterDrop(Append(acc, ms[2]), Tail(Tail(ms)),
                       maxCost, minContext, reasoning, vision)

filterModelsSkipNext(ms, maxCost, minContext, reasoning, vision) ==
    [filtered |-> SkipAfterDrop(<<>>, ms, maxCost, minContext, reasoning, vision),
     models |-> ms]

filterModels(ms, maxCost, minContext, reasoning, vision) ==
    [filtered |-> AppendPassing(<<>>, ms, maxCost, minContext, reasoning, vision),
     models |-> ms]

\* scores are kept in units of 1/ScoreUnit, so that CostPer1MIn/10 is exact
ScoreUnit == 10 * Unit

\* the loop body of scoreModels
\* a scoring whose cost penalty has no ceiling
ScoreMatchUncapped(mm) ==
    LET m == mm.model
        contextBonus == IF m.ContextWindow >= 200000 THEN 20
                        ELSE IF m.ContextWindow >= 100000 THEN 10 ELSE 0
    IN [mm EXCEPT !.score = 100 * ScoreUnit - m.CostPer1MIn + contextBonus * ScoreUnit
                            + (IF m.CanReason THEN 15 * ScoreUnit ELSE 0)
                            + (IF m.SupportsImages THEN 10 * ScoreUnit ELSE 0)]

ScoreMatch(mm) ==
    LET m == mm.model
        costPenalty == IF m.CostPer1MIn > 0 THEN Min(m.CostPer1MIn, 50 * ScoreUnit) ELSE 0
        contextBonus == IF m.ContextWindow >= 200000 THEN 20
                        ELSE IF m.ContextWindow >= 100000 THEN 10 ELSE 0
    IN [mm EXCEPT !.score = 100 * ScoreUnit - costPenalty + contextBonus * ScoreUnit
                            + (IF m.CanReason THEN 15 * ScoreUnit ELSE 0)
                            + (IF m.SupportsImages THEN 10 * ScoreUnit ELSE 0)]

\* scoreModels scores and sorts the caller's slice and returns it
scoreModels(ms) ==
    LET out == SortSlice([i \in 1..Len(ms) |-> ScoreMatch(ms[i])])
    IN [scored |-> out, models |-> out]

----------------------------------------------------------------------------
\* list-models: filterModels (the flags *reasoning and *vision)

listFilterModels(ms, reasoning, vision) ==
    [filtered |-> SelectSeq(ms, LAMBDA m : /\ ~(reasoning /\ ~m.CanReason)
                                          /\ ~(vision /\ ~m.SupportsImages)),
     models |-> ms]

----------------------------------------------------------------------------
\* strconv.ParseFloat and strconv.ParseInt on what Update lets into
\* currentInput: digits and the decimal point

Digits == << "0", "1", "2", "3", "4", "5", "6", "7", "8", "9" >>
IsDigit(c) == \E i \in 1..Len(Digits) : Digits[i] = c
DigitVal(c) == (CHOOSE i \in 1..Len(Digits) : Digits[i] = c) - 1

RECURSIVE DecimalVal(_)
DecimalVal(s) == IF s = <<>> THEN 0 ELSE 10 * DecimalVal(SubSeq(s, 1, Len(s) - 1)) + DigitVal(s[Len(s)])

DotsOf(s) == {i \in 1..Len(s) : s[i] = "."}

\* err == nil: base 10, at least one digit, nothing but digits
ParseIntOk(s) == Len(s) > 0 /\ \A i \in 1..Len(s) : IsDigit(s[i])
ParseInt(s) == DecimalVal(s)

\* err == nil: at least one digit and at most one decimal point
ParseFloatOk(s) ==
    /\ \A i \in 1..Len(s) : IsDigit(s[i]) \/ s[i] = "."
    /\ Cardinality(DotsOf(s)) <= 1
    /\ \E i \in 1..Len(s) : IsDigit(s[i])

\* the value, in units
ParseFloat(s) ==
    IF DotsOf(s) = {} THEN DecimalVal(s) * Unit
    ELSE LET d == CHOOSE i \in DotsOf(s) : TRUE
             frac == SubSeq(s, d + 1, Len(s))
         IN DecimalVal(SubSeq(s, 1, d - 1)) * Unit
            + DecimalVal(frac) * Pow10(MaxInput - Len(frac))

----------------------------------------------------------------------------
\* model-selector: the wizard (a bubbletea model)

\* a list item made of a string
listItem(s) == <<s>>

budgetItems ==
    << listItem("No budget limit"), listItem("Under $0.50 per 1M tokens"),
       listItem("Under $1.00 per 1M tokens"), listItem("Under $5.00 per 1M tokens"),
       listItem("Under $10.00 per 1M tokens"), listItem("Any cost") >>
budgetChoices == << "0", "0.5", "1.0", "5.0", "10.0", "1000" >>

contextItems ==
    << listItem("Any context size"), listItem("At least 32K tokens"),
       listItem("At least 100K tokens"), listItem("At least 200K tokens"),
       listItem("At least 400K tokens") >>
contextChoices == << "0", "32000", "100000", "200000", "400000" >>

reasoningItems ==
    << listItem("Yes, I need reasoning capabilities"), listItem("No, reasoning not required") >>
visionItems ==
    << listItem("Yes, I need vision/multimodal"), listItem("No, text-only is fine") >>
yesNoChoices == << "yes", "no" >>

\* setupResultsList: one list item per entry of the top 5
resultsItems(ms) ==
    [i \in 1..Min(5, Len(ms)) |-> <<ms[i].model.ID, ms[i].provider, ms[i].score>>]

\* viewResults: the entries rendered in detail
viewResults(ms) == SubSeq(ms, 1, Min(3, Len(ms)))

\* the fields of the running program's model
Snapshot ==
    [allModels |-> allModels, step |-> step, requirements |-> requirements,
     items |-> items, cursor |-> cursor, choices |-> choices,
     models |-> models, filtered |-> filtered, findStep |-> findStep,
     currentInput |-> currentInput, messages |-> messages,
     totalTokens |-> totalTokens, totalCost |-> totalCost]

NoRequirements == [budget |-> 0, contextSize |-> 0, reasoning |-> FALSE, vision |-> FALSE]
NoFlags == [maxCost |-> 0, minContext |-> 0, reasoning |-> FALSE, vision |-> FALSE]

NoSnapshot ==
    [allModels |-> <<>>, step |-> stepBudget, requirements |-> NoRequirements,
     items |-> <<>>, cursor |-> 0, choices |-> <<>>,
     models |-> <<>>, filtered |-> <<>>, findStep |-> findStepMaxCost,
     currentInput |-> <<>>, messages |-> <<>>, totalTokens |-> 0, totalCost |-> 0]

\* the variables of the tools that are not running
SelectorIdle ==
    /\ allModels = <<>> /\ step = stepBudget /\ requirements = NoRequirements
    /\ items = <<>> /\ cursor = 0 /\ choices = <<>>

NoArgs == [model |-> <<>>]
CalcIdle == args = NoArgs /\ results = <<>> /\ found = <<>>

ChatIdle == messages = <<>> /\ totalTokens = 0 /\ totalCost = 0 /\ exchanges = <<>>

FindIdle ==
    /\ flags = NoFlags /\ models = <<>> /\ filtered = <<>>
    /\ findStep = findStepMaxCost /\ currentInput = <<>>

\* initialModel(allModels)
SelectorInit ==
    /\ prog = "model-selector"
    /\ tiesKept \in BOOLEAN
    /\ err = "nil"
    /\ catalog \in Catalogs
    /\ CalcIdle /\ ChatIdle
    /\ allModels = CollectAllModels(catalog)
    /\ step = stepBudget
    /\ requirements = NoRequirements
    /\ items = budgetItems
    /\ cursor = 0
    /\ choices = budgetChoices
    /\ FindIdle
    /\ status = "running"
    /\ lastMsg = ""
    /\ prev = NoSnapshot

Handled(msg) ==
    /\ lastMsg' = msg
    /\ prev' = Snapshot

\* a cancel that also throws away the requirements gathered so far
SelectorCancelDiscards ==
    /\ prog = "model-selector" /\ status = "running"
    /\ \E msg \in {"ctrl+c", "esc"} : Handled(msg)
    /\ status' = "quit"
    /\ requirements' = NoRequirements
    /\ UNCHANGED <<findVars, prog, tiesKept, catalog, err, calcVars, chatVars, allModels, step, items, cursor, choices>>

\* Update: case tea.KeyCtrlC, tea.KeyEsc
SelectorCancel ==
    /\ prog = "model-selector" /\ status = "running"
    /\ \E msg \in {"ctrl+c", "esc"} : Handled(msg)
    /\ status' = "quit"
    /\ UNCHANGED <<findVars, prog, tiesKept, catalog, err, calcVars, chatVars, selectorVars>>

\* list.Update on an arrow key: the cursor moves one item and stops at the ends
listUpdate(msg, n, c) ==
    IF msg = "up" THEN (IF c > 0 THEN c - 1 ELSE c)
    ELSE IF c + 1 < n THEN c + 1 ELSE c

\* Update: case tea.KeyUp, tea.KeyDown
SelectorNavigate ==
    /\ prog = "model-selector" /\ status = "running"
    /\ \E msg \in {"up", "down"} :
          /\ Handled(msg)
          /\ cursor' = listUpdate(msg, Len(items), cursor)
    /\ UNCHANGED <<findVars, prog, tiesKept, catalog, err, calcVars, chatVars, allModels, step, requirements, items,
                   choices, status>>

\* Update: tea.WindowSizeMsg and every other key fall through to return m, nil
SelectorIgnore ==
    /\ prog = "model-selector" /\ status = "running"
    /\ \E msg \in {"resize", "runes"} : Handled(msg)
    /\ UNCHANGED <<findVars, prog, tiesKept, catalog, err, calcVars, chatVars, selectorVars, status>>

\* a switch whose first case assigns the step after the next one
stepAfterSkipping(s) ==
    CASE s = stepBudget -> stepReasoning
      [] s = stepContext -> stepReasoning
      [] s = stepReasoning -> stepVision
      [] s = stepVision -> stepResults
      [] OTHER -> s

\* handleEnter: the step each case of the switch assigns
stepAfter(s) ==
    CASE s = stepBudget -> stepContext
      [] s = stepContext -> stepReasoning
      [] s = stepReasoning -> stepVision
      [] s = stepVision -> stepResults
      [] OTHER -> s

\* handleEnter: choice := m.choices[m.list.Index()] is read before the switch
\* on m.step; an index past the end of m.choices is a run-time panic
handleEnter ==
    IF cursor + 1 > Len(choices)
    THEN /\ status' = "panic"
         /\ UNCHANGED <<allModels, step, requirements, items, cursor, choices>>
    ELSE LET choice == choices[cursor + 1] IN
         CASE step = stepBudget ->
                /\ requirements' = [requirements EXCEPT !.budget = parseBudget(choice)]
                /\ step' = stepAfter(step)
                /\ items' = contextItems /\ choices' = contextChoices /\ cursor' = 0
                /\ UNCHANGED <<allModels, status>>
           [] step = stepContext ->
                /\ requirements' = [requirements EXCEPT !.contextSize = parseContext(choice)]
                /\ step' = stepAfter(step)
                /\ items' = reasoningItems /\ choices' = yesNoChoices /\ cursor' = 0
                /\ UNCHANGED <<allModels, status>>
           [] step = stepReasoning ->
                /\ requirements' = [requirements EXCEPT !.reasoning = (choice = "yes")]
                /\ step' = stepAfter(step)
                /\ items' = visionItems /\ choices' = yesNoChoices /\ cursor' = 0
                /\ UNCHANGED <<allModels, status>>
           [] step = stepVision ->
                /\ requirements' = [requirements EXCEPT !.vision = (choice = "yes")]
                /\ step' = stepAfter(step)
                /\ allModels' = calculateScores(allModels, requirements')
                /\ items' = resultsItems(allModels') /\ cursor' = 0
                /\ UNCHANGED <<choices, status>>
           [] OTHER ->
                /\ status' = "quit"
                /\ UNCHANGED <<allModels, step, requirements, items, cursor, choices>>

\* Update: case tea.KeyEnter
SelectorEnter ==
    /\ prog = "model-selector" /\ status = "running"
    /\ Handled("enter")
    /\ handleEnter
    /\ UNCHANGED <<findVars, prog, tiesKept, catalog, err, calcVars, chatVars>>

----------------------------------------------------------------------------
\* find-models: main without --interactive

MaxCostFlags == {-Unit, 0, Unit \div 4, Unit, 10 * Unit}
MinContextFlags == {-1, 0, 100000, 200001}

FindSearchInit ==
    /\ prog = "find-models"
    /\ tiesKept \in BOOLEAN
    /\ err = "nil"
    /\ catalog \in Catalogs
    /\ CalcIdle /\ ChatIdle
    /\ SelectorIdle
    /\ flags \in [maxCost : MaxCostFlags, minContext : MinContextFlags,
                  reasoning : BOOLEAN, vision : BOOLEAN]
    /\ models = CollectModelMatches(catalog)
    /\ filtered = <<>>
    /\ findStep = findStepMaxCost
    /\ currentInput = <<>>
    /\ status = "filter"
    /\ lastMsg = ""
    /\ prev = NoSnapshot

\* matches := filterModels(allModels, *maxCost, *minContext, *reasoning, *vision)
FindFilter ==
    /\ prog = "find-models" /\ status = "filter"
    /\ LET r == filterModels(models, flags.maxCost, flags.minContext,
                             flags.reasoning, flags.vision)
       IN /\ filtered' = r.filtered
          /\ models' = r.models
          /\ status' = IF Len(r.filtered) = 0 THEN "done" ELSE "display"
    /\ Handled("")
    /\ UNCHANGED <<prog, tiesKept, catalog, err, calcVars, chatVars, selectorVars, flags, findStep, currentInput>>

\* displayMatches(matches): models = scoreModels(models), then the top 10
FindDisplay ==
    /\ prog = "find-models" /\ status = "display"
    /\ filtered' = scoreModels(filtered).models
    /\ status' = "done"
    /\ Handled("")
    /\ UNCHANGED <<prog, tiesKept, catalog, err, calcVars, chatVars, selectorVars, flags, models, findStep,
                   currentInput>>

----------------------------------------------------------------------------
\* find-models: main with --interactive (a bubbletea model)

InputChars == {"1", "5", "."}

\* initialModel(models)
FindWizardInit ==
    /\ prog = "find-models --interactive"
    /\ tiesKept \in BOOLEAN
    /\ err = "nil"
    /\ catalog \in Catalogs
    /\ CalcIdle /\ ChatIdle
    /\ SelectorIdle
    /\ flags = NoFlags
    /\ models = CollectModelMatches(catalog)
    /\ filtered = models
    /\ findStep = findStepMaxCost
    /\ currentInput = <<>>
    /\ status = "running"
    /\ lastMsg = ""
    /\ prev = NoSnapshot

FindWizard == prog = "find-models --interactive" /\ status = "running"

\* View, which the program renders after every Update: in the results step
\* it calls scoreModels on m.filtered, whose elements the kept model shares
View(s, flt) == IF s = findStepResults THEN scoreModels(flt).models ELSE flt

\* Update: case tea.KeyCtrlC, tea.KeyEsc
FindCancel ==
    /\ FindWizard
    /\ \E msg \in {"ctrl+c", "esc"} : Handled(msg)
    /\ status' = "quit"
    /\ filtered' = View(findStep, filtered)
    /\ UNCHANGED <<prog, tiesKept, catalog, err, calcVars, chatVars, selectorVars, flags, models, findStep,
                   currentInput>>

\* Update: case tea.KeyEnter
FindEnter ==
    /\ FindWizard
    /\ Handled("enter")
    /\ CASE findStep = findStepMaxCost ->
              IF ParseFloatOk(currentInput)
              THEN /\ filtered' = filterModels(models, ParseFloat(currentInput),
                                               0, FALSE, FALSE).filtered
                   /\ findStep' = findStepMinContext
                   /\ currentInput' = <<>>
                   /\ UNCHANGED status
              ELSE UNCHANGED <<filtered, findStep, currentInput, status>>
         [] findStep = findStepMinContext ->
              IF ParseIntOk(currentInput)
              THEN /\ filtered' = filterModels(filtered, 0, ParseInt(currentInput),
                                               FALSE, FALSE).filtered
                   /\ findStep' = findStepCapabilities
                   /\ UNCHANGED <<currentInput, status>>
              ELSE UNCHANGED <<filtered, findStep, currentInput, status>>
         [] findStep = findStepCapabilities ->
              /\ findStep' = findStepResults
              /\ filtered' = View(findStepResults, filtered)
              /\ UNCHANGED <<currentInput, status>>
         [] OTHER ->
              /\ status' = "quit"
              /\ filtered' = View(findStep, filtered)
              /\ UNCHANGED <<findStep, currentInput>>
    /\ UNCHANGED <<prog, tiesKept, catalog, err, calcVars, chatVars, selectorVars, flags, models>>

\* Update: case tea.KeyBackspace
FindBackspace ==
    /\ FindWizard
    /\ Handled("backspace")
    /\ currentInput' = IF Len(currentInput) > 0
                       THEN SubSeq(currentInput, 1, Len(currentInput) - 1)
                       ELSE currentInput
    /\ filtered' = View(findStep, filtered)
    /\ UNCHANGED <<prog, tiesKept, catalog, err, calcVars, chatVars, selectorVars, flags, models, findStep, status>>

\* Update: default, a key of one character: digits and "." are typed into
\* currentInput in the two input steps
FindType ==
    /\ FindWizard
    /\ \E char \in InputChars :
          /\ Handled(char)
          /\ IF findStep \in {findStepMaxCost, findStepMinContext}
             THEN /\ Len(currentInput) < MaxInput
                  /\ currentInput' = Append(currentInput, char)
             ELSE UNCHANGED currentInput
    /\ filtered' = View(findStep, filtered)
    /\ UNCHANGED <<prog, tiesKept, catalog, err, calcVars, chatVars, selectorVars, flags, models, findStep, status>>

\* Update: any other key, and any message that is not a key
FindIgnore ==
    /\ FindWizard
    /\ \E msg \in {"resize", "tab"} : Handled(msg)
    /\ filtered' = View(findStep, filtered)
    /\ UNCHANGED <<prog, tiesKept, catalog, err, calcVars, chatVars, selectorVars, flags, models, findStep,
                   currentInput, status>>

----------------------------------------------------------------------------
\* list-models: models := filterModels(provider.Models)

\* the values of --sort and --format
SortFlags ==
    {<<"n", "a", "m", "e">>, <<"c", "o", "s", "t">>, <<"C", "o", "n", "t", "e", "x", "t">>,
     <<"s", "i", "z", "e">>}
ListFormats == {<<"t", "a", "b", "l", "e">>, <<"J", "S", "O", "N">>, <<"x", "m", "l">>}

ListInit ==
    /\ prog = "list-models"
    /\ tiesKept \in BOOLEAN
    /\ err = "nil"
    /\ catalog \in Catalogs
    /\ CalcIdle /\ ChatIdle
    /\ SelectorIdle
    /\ flags \in [maxCost : {0}, minContext : {0}, reasoning : BOOLEAN, vision : BOOLEAN,
                  sort : SortFlags, format : ListFormats]
    /\ models = catalog
    /\ filtered = <<>>
    /\ findStep = findStepMaxCost
    /\ currentInput = <<>>
    /\ status = "filter"
    /\ lastMsg = ""
    /\ prev = NoSnapshot

ListFilter ==
    /\ prog = "list-models" /\ status = "filter"
    /\ LET r == listFilterModels(models, flags.reasoning, flags.vision)
       IN /\ filtered' = r.filtered
          /\ models' = r.models
    /\ status' = "sort"
    /\ Handled("")
    /\ UNCHANGED <<prog, tiesKept, catalog, err, calcVars, chatVars, selectorVars, flags, findStep, currentInput>>

----------------------------------------------------------------------------
\* strings: a Go string the code inspects is a sequence of one-character strings

Lower(c) ==
    CASE c = "A" -> "a" [] c = "B" -> "b" [] c = "C" -> "c" [] c = "J" -> "j"
      [] c = "N" -> "n"
      [] c = "O" -> "o" [] c = "P" -> "p" [] c = "Q" -> "q" [] c = "S" -> "s"
      [] c = "Z" -> "z"
      [] OTHER -> c

\* strings.ToLower
ToLower(s) == [i \in 1..Len(s) |-> Lower(s[i])]

\* strings.EqualFold
EqualFold(s, t) == ToLower(s) = ToLower(t)

\* strings.Contains: the empty substr is contained in every string
Contains(s, substr) ==
    \E i \in 0..(Len(s) - Len(substr)) : SubSeq(s, i + 1, i + Len(substr)) = substr

\* strings.TrimSpace
RECURSIVE TrimLeft(_)
TrimLeft(s) == IF s # <<>> /\ s[1] = " " THEN TrimLeft(Tail(s)) ELSE s

RECURSIVE TrimRight(_)
TrimRight(s) ==
    IF s # <<>> /\ s[Len(s)] = " " THEN TrimRight(SubSeq(s, 1, Len(s) - 1)) ELSE s

TrimSpace(s) == TrimRight(TrimLeft(s))

----------------------------------------------------------------------------
\* cost calculator, model-info, chat bot: the providers client.GetProviders
\* returned; prices are in money units per million tokens

PricedModel(id, name, in, out, cachedIn, cachedOut) ==
    [ID |-> id, Name |-> name, CostPer1MIn |-> in, CostPer1MOut |-> out,
     CostPer1MInCached |-> cachedIn, CostPer1MOutCached |-> cachedOut]

ProviderOne ==
    [ID |-> <<"p", "1">>, Name |-> "One", DefaultLargeModelID |-> <<"b", "2">>,
     Models |-> << PricedModel(<<"m", "3">>, <<"B", "a", "2", "x">>,
                               3 * Unit, 15 * Unit, Unit \div 4, (3 * Unit) \div 2),
                   PricedModel(<<"b", "2">>, <<"N", "o", "v", "a">>, 0, 0, 0, 0) >>]

ProviderTwo ==
    [ID |-> <<"P", "2">>, Name |-> "Two", DefaultLargeModelID |-> <<"A", "2">>,
     Models |-> << PricedModel(<<"a", "2">>, <<"Z", "e", "d">>,
                               (5 * Unit) \div 2, 10 * Unit, (5 * Unit) \div 4, 5 * Unit),
                   PricedModel(<<"m", "3">>, <<"B", "a", "2", "x">>,
                               Unit, 4 * Unit, Unit, 4 * Unit) >>]

ProviderCatalogs ==
    {<<>>, <<ProviderOne>>, <<ProviderOne, ProviderTwo>>, <<ProviderTwo, ProviderOne>>}

\* a pointer is nil or holds one value
nil == <<>>

\* the test of the lookup loops
MatchesToken(model, modelName) ==
    \/ EqualFold(model.ID, modelName)
    \/ Contains(ToLower(model.Name), ToLower(modelName))

\* for j := range providers[i].Models, from j on: the first j that matches, or 0
RECURSIVE ScanModels(_, _, _)
ScanModels(ms, j, modelName) ==
    IF j > Len(ms) THEN 0
    ELSE IF MatchesToken(ms[j], modelName) THEN j
    ELSE ScanModels(ms, j + 1, modelName)

\* a lookup that prefers a model whose id is the token to an earlier model
\* whose name contains it
ScanProvidersExactFirst(providers, i, modelName) ==
    LET all == UNION {{<<k, j>> : j \in 1..Len(providers[k].Models)} :
                         k \in i..Len(providers)}
        exact == {p \in all : EqualFold(providers[p[1]].Models[p[2]].ID, modelName)}
        named == {p \in all : MatchesToken(providers[p[1]].Models[p[2]], modelName)}
        first(S) == CHOOSE p \in S : \A q \in S :
                        p[1] < q[1] \/ (p[1] = q[1] /\ p[2] <= q[2])
        pick(p) == <<[model |-> providers[p[1]].Models[p[2]], provider |-> providers[p[1]]]>>
    IN IF exact # {} THEN pick(first(exact))
       ELSE IF named # {} THEN pick(first(named))
       ELSE nil

\* for i := range providers, from i on, with the break out of both loops
RECURSIVE ScanProviders(_, _, _)
ScanProviders(providers, i, modelName) ==
    IF i > Len(providers) THEN nil
    ELSE LET j == ScanModels(providers[i].Models, 1, modelName)
         IN IF j > 0
            THEN <<[model |-> providers[i].Models[j], provider |-> providers[i]]>>
            ELSE ScanProviders(providers, i + 1, modelName)

\* cachedRatio counts in 1/RatioDen
RatioDen == 4

\* a cost counts in 1/MicroDollar of a millionth of a dollar
MicroDollar == RatioDen * Unit

\* an estimate that bills cached output as well
calculateCostCachedOutput(providers, modelName, inputTokens, outputTokens, cachedRatio) ==
    LET f == ScanProviders(providers, 1, modelName)
    IN IF f = nil THEN nil
       ELSE LET model == f[1].model
                inputCost == inputTokens * (RatioDen - cachedRatio) * model.CostPer1MIn
                             + inputTokens * cachedRatio * model.CostPer1MInCached
                outputCost == outputTokens * (RatioDen - cachedRatio) * model.CostPer1MOut
                              + outputTokens * cachedRatio * model.CostPer1MOutCached
            IN <<[Model |-> model.Name, Provider |-> f[1].provider.Name,
                  InputCost |-> inputCost, OutputCost |-> outputCost,
                  TotalCost |-> inputCost + outputCost]>>

\* calculateCost: nil when no model matches. The float64 products are exact
\* here: token counts times RatioDen, costs in 1/MicroDollar millionths of a
\* dollar, which takes the division by 1_000_000.
calculateCost(providers, modelName, inputTokens, outputTokens, cachedRatio) ==
    LET f == ScanProviders(providers, 1, modelName)
    IN IF f = nil THEN nil
       ELSE LET model == f[1].model
                cachedInputTokens == inputTokens * cachedRatio
                uncachedInputTokens == inputTokens * (RatioDen - cachedRatio)
                inputCost == uncachedInputTokens * model.CostPer1MIn
                             + cachedInputTokens * model.CostPer1MInCached
                outputCost == outputTokens * RatioDen * model.CostPer1MOut
            IN <<[Model |-> model.Name, Provider |-> f[1].provider.Name,
                  InputCost |-> inputCost, OutputCost |-> outputCost,
                  TotalCost |-> inputCost + outputCost]>>

\* sort.Slice(results, func(i, j) { results[i].TotalCost < results[j].TotalCost })
IsSortedByTotal(s) == \A i \in 1..(Len(s) - 1) : ~(s[i + 1].TotalCost < s[i].TotalCost)

RECURSIVE InsertByTotal(_, _)
InsertByTotal(x, s) ==
    IF s = <<>> THEN <<x>>
    ELSE IF x.TotalCost < s[1].TotalCost THEN <<x>> \o s
    ELSE <<s[1]>> \o InsertByTotal(x, Tail(s))

RECURSIVE InsertionSortByTotal(_)
InsertionSortByTotal(s) ==
    IF s = <<>> THEN <<>>
    ELSE InsertByTotal(s[Len(s)], InsertionSortByTotal(SubSeq(s, 1, Len(s) - 1)))

SortSliceByTotal(s) ==
    IF IsSortedByTotal(s) THEN s
    ELSE IF tiesKept THEN InsertionSortByTotal(s)
    ELSE InsertionSortByTotal(Reverse(s))

\* compareModels, the loop: one estimate per name that resolves
RECURSIVE CompareEach(_, _, _, _, _)
CompareEach(providers, modelNames, inputTokens, outputTokens, cachedRatio) ==
    IF modelNames = <<>> THEN <<>>
    ELSE calculateCost(providers, TrimSpace(Head(modelNames)), inputTokens,
                       outputTokens, cachedRatio)
         \o CompareEach(providers, Tail(modelNames), inputTokens, outputTokens,
                        cachedRatio)

\* a comparison in the order the names were given
compareModelsUnsorted(providers, modelNames, inputTokens, outputTokens, cachedRatio) ==
    CompareEach(providers, modelNames, inputTokens, outputTokens, cachedRatio)

\* compareModels: the results it hands to displayCostResult, none when no name resolved
compareModels(providers, modelNames, inputTokens, outputTokens, cachedRatio) ==
    SortSliceByTotal(CompareEach(providers, modelNames, inputTokens, outputTokens,
                                 cachedRatio))

\* a batch that stops at the first scenario whose model does not resolve
RECURSIVE processBatchStopping(_, _)
processBatchStopping(providers, scenarios) ==
    IF scenarios = <<>> THEN <<>>
    ELSE LET s == Head(scenarios)
             r == calculateCost(providers, s.Model, s.InputTokens, s.OutputTokens,
                                s.CachedRatio)
         IN IF r = nil THEN <<>>
            ELSE r \o processBatchStopping(providers, Tail(scenarios))

\* processBatch, the loop over the parsed scenarios
RECURSIVE processBatch(_, _)
processBatch(providers, scenarios) ==
    IF scenarios = <<>> THEN <<>>
    ELSE LET s == Head(scenarios)
         IN calculateCost(providers, s.Model, s.InputTokens, s.OutputTokens,
                          s.CachedRatio)
            \o processBatch(providers, Tail(scenarios))

\* displayCostResult: log.Fatalf on a format that is none of the three
displayCostResult(format) ==
    IF ToLower(format) \in {<<"j", "s", "o", "n">>, <<"c", "s", "v">>,
                            <<"t", "a", "b", "l", "e">>}
    THEN "done" ELSE "fatal"

----------------------------------------------------------------------------
\* cost calculator: the flags and main

MaxToken == 2
MaxNames == 2
MaxScenarios == 2

TokenChars == {"a", "B", "2", "z", " "}
Tokens == UNION {[1..n -> TokenChars] : n \in 0..MaxToken}

SeqsUpTo(S, n) == UNION {[1..k -> S] : k \in 0..n}

InputTokenCounts == {-1000, 0, 1000}
OutputTokenCounts == {0, 500}
CachedRatios == {-2, 0, 2, 4, 6}
Formats == {<<"t", "a", "b", "l", "e">>, <<"J", "S", "O", "N">>, <<"x", "m", "l">>}

CompareNames == {<<"a", "2">>, <<" ", "B", "2">>, <<"z">>, <<"z", "z">>, <<>>}

BatchScenarios ==
    {[Model |-> <<"a", "2">>, InputTokens |-> 1000, OutputTokens |-> 500, CachedRatio |-> 2],
     [Model |-> <<"z", "z">>, InputTokens |-> 1000, OutputTokens |-> 500, CachedRatio |-> 0],
     [Model |-> <<"z">>, InputTokens |-> -1000, OutputTokens |-> 500, CachedRatio |-> 0],
     [Model |-> <<"a">>, InputTokens |-> 1000, OutputTokens |-> 0, CachedRatio |-> 6],
     [Model |-> <<>>, InputTokens |-> 0, OutputTokens |-> 0, CachedRatio |-> 0]}

\* os.ReadFile and json.Unmarshal of the batch file
BatchFiles ==
    [read : {"ok"}, scenarios : SeqsUpTo(BatchScenarios, MaxScenarios)]
    \cup [read : {"unreadable", "malformed"}, scenarios : {<<>>}]

SingleArgs ==
    [model : Tokens, compare : {<<>>}, input : InputTokenCounts,
     output : OutputTokenCounts, cached : CachedRatios, batch : {<<>>}, format : Formats]

\* strings.Split(*compareList, ",") of a list that is not empty
CompareArgs ==
    [model : {<<>>}, compare : SeqsUpTo(CompareNames, MaxNames) \ {<<>>},
     input : InputTokenCounts, output : OutputTokenCounts, cached : CachedRatios,
     batch : {<<>>}, format : Formats]

BatchArgs ==
    [model : {<<>>}, compare : {<<>>, << <<"z">> >>}, input : {0}, output : {0},
     cached : {0}, batch : {<<b>> : b \in BatchFiles}, format : Formats]

CostInit ==
    /\ prog = "cost-calculator"
    /\ tiesKept \in BOOLEAN
    /\ err = "nil"
    /\ catalog \in ProviderCatalogs
    /\ SelectorIdle /\ FindIdle /\ ChatIdle
    /\ args \in SingleArgs \cup CompareArgs \cup BatchArgs
    /\ results = <<>>
    /\ found = nil
    /\ status = "start"
    /\ lastMsg = ""
    /\ prev = NoSnapshot

CostCalculator == prog = "cost-calculator" /\ status = "start"

\* main: if *batchFile != "" { processBatch(providers, *batchFile) }
CostBatch ==
    /\ CostCalculator
    /\ args.batch # <<>>
    /\ LET file == args.batch[1]
           rs == processBatch(catalog, file.scenarios)
       IN IF file.read # "ok"
          THEN results' = <<>> /\ status' = "fatal"
          ELSE /\ results' = rs
               /\ status' = IF rs = <<>> THEN "done" ELSE displayCostResult(args.format)
    /\ Handled("")
    /\ UNCHANGED <<prog, tiesKept, catalog, err, selectorVars, findVars, chatVars, args, found>>

\* main: if *compareList != "" { compareModels(providers, ...) }
CostCompare ==
    /\ CostCalculator
    /\ args.batch = <<>> /\ args.compare # <<>>
    /\ LET rs == compareModels(catalog, args.compare, args.input, args.output, args.cached)
       IN /\ results' = rs
          /\ status' = IF rs = <<>> THEN "done" ELSE displayCostResult(args.format)
    /\ Handled("")
    /\ UNCHANGED <<prog, tiesKept, catalog, err, selectorVars, findVars, chatVars, args, found>>

\* main: single model calculation
CostSingle ==
    /\ CostCalculator
    /\ args.batch = <<>> /\ args.compare = <<>>
    /\ LET result == calculateCost(catalog, args.model, args.input, args.output,
                                   args.cached)
       IN IF args.model = <<>> \/ args.input = 0 \/ args.output = 0 \/ result = nil
          THEN results' = <<>> /\ status' = "fatal"
          ELSE results' = result /\ status' = displayCostResult(args.format)
    /\ Handled("")
    /\ UNCHANGED <<prog, tiesKept, catalog, err, selectorVars, findVars, chatVars, args, found>>

----------------------------------------------------------------------------
\* model-info: main

ProviderIDs == {<<>>, <<"P", "1">>, <<"p", "2">>, <<"q">>}

\* the lookup loops of main, which skip the providers --provider excludes
RECURSIVE ScanProvidersOf(_, _, _, _)
ScanProvidersOf(providers, i, providerID, modelName) ==
    IF i > Len(providers) THEN nil
    ELSE IF providerID # <<>> /\ ToLower(providers[i].ID) # ToLower(providerID)
    THEN ScanProvidersOf(providers, i + 1, providerID, modelName)
    ELSE LET j == ScanModels(providers[i].Models, 1, modelName)
         IN IF j > 0
            THEN <<[model |-> providers[i].Models[j], provider |-> providers[i]]>>
            ELSE ScanProvidersOf(providers, i + 1, providerID, modelName)

ModelInfoInit ==
    /\ prog = "model-info"
    /\ tiesKept \in BOOLEAN
    /\ err = "nil"
    /\ catalog \in ProviderCatalogs
    /\ SelectorIdle /\ FindIdle /\ ChatIdle
    /\ args \in [model : Tokens, provider : ProviderIDs]
    /\ results = <<>>
    /\ found = nil
    /\ status = "start"
    /\ lastMsg = ""
    /\ prev = NoSnapshot

ModelInfoMain ==
    /\ prog = "model-info" /\ status = "start"
    /\ LET f == ScanProvidersOf(catalog, 1, args.provider, args.model)
       IN IF args.model = <<>>
          THEN found' = nil /\ status' = "fatal"
          ELSE found' = f /\ status' = IF f = nil THEN "fatal" ELSE "done"
    /\ Handled("")
    /\ UNCHANGED <<prog, tiesKept, catalog, err, selectorVars, findVars, chatVars, args, results>>

----------------------------------------------------------------------------
\* chat bot: main and runChatLoop

MaxExchanges == 2

ChatModelIDs == {<<>>, <<"B", "2">>, <<"a", "2">>, <<"z">>}
SystemPrompts == {"", "be brief"}

\* what resolveAPIKey returns: "" when no source has a key
APIKeys == {"", "key"}

\* for i := range s, the first entry whose ID is id under strings.EqualFold, or 0
RECURSIVE IndexFold(_, _, _)
IndexFold(s, i, id) ==
    IF i > Len(s) THEN 0
    ELSE IF EqualFold(s[i].ID, id) THEN i
    ELSE IndexFold(s, i + 1, id)

\* the default model: the one whose ID is provider.DefaultLargeModelID,
\* else the provider's first model
RECURSIVE IndexExact(_, _, _)
IndexExact(s, i, id) ==
    IF i > Len(s) THEN 0
    ELSE IF s[i].ID = id THEN i
    ELSE IndexExact(s, i + 1, id)

\* main: the model the session talks to, nil when main exits before the loop
sessionModel(providers, providerID, modelName) ==
    LET p == IndexFold(providers, 1, providerID)
        provider == providers[p]
        named == IndexFold(provider.Models, 1, modelName)
        default == IndexExact(provider.Models, 1, provider.DefaultLargeModelID)
        m == IF modelName # <<>> THEN named
             ELSE IF default # 0 THEN default
             ELSE IF Len(provider.Models) > 0 THEN 1 ELSE 0
    IN IF providerID = <<>> \/ p = 0 THEN nil
       ELSE IF m = 0 THEN nil
       ELSE <<[model |-> provider.Models[m], provider |-> provider]>>

ChatInit ==
    /\ prog = "chat-bot"
    /\ tiesKept \in BOOLEAN
    /\ err = "nil"
    /\ catalog \in ProviderCatalogs
    /\ SelectorIdle /\ FindIdle /\ ChatIdle
    /\ args \in [provider : ProviderIDs, model : ChatModelIDs, system : SystemPrompts,
                 apiKey : APIKeys]
    /\ results = <<>>
    /\ found = nil
    /\ status = "start"
    /\ lastMsg = ""
    /\ prev = NoSnapshot

\* main, up to runChatLoop(session)
ChatMain ==
    /\ prog = "chat-bot" /\ status = "start"
    /\ LET m == sessionModel(catalog, args.provider, args.model)
       IN IF m = nil \/ args.apiKey = ""
          THEN /\ status' = "fatal"
               /\ UNCHANGED <<found, messages>>
          ELSE /\ status' = "prompt"
               /\ found' = m
               /\ messages' = IF args.system # ""
                              THEN <<[Role |-> "system", Content |-> args.system]>>
                              ELSE <<>>
    /\ Handled("")
    /\ UNCHANGED <<prog, tiesKept, catalog, err, selectorVars, findVars, args, results,
                   totalTokens, totalCost, exchanges>>

\* the lines read from stdin, before strings.TrimSpace
BlankLines == {<<>>, <<" ">>}
TextLines == {<<"a">>, <<" ", "a", " ">>, <<"z", " ", "/">>}
CommandLines ==
    {<<"/", "q", "u", "i", "t">>, <<"/", "e", "x", "i", "t">>, <<"/", "q">>,
     <<"/", "Q">>, <<"/", "c", "l", "e", "a", "r">>, <<" ", "/", "c", "l", "e", "a", "r">>,
     <<"/", "c", "o", "s", "t">>, <<"/", "h", "e", "l", "p">>, <<"/", "z">>, <<"/">>}

\* strings.HasPrefix(input, "/")
IsCommand(input) == input # <<>> /\ input[1] = "/"

ChatPrompt == prog = "chat-bot" /\ status = "prompt"

\* reader.ReadString returns io.EOF
ChatEOF ==
    /\ ChatPrompt
    /\ Handled("EOF")
    /\ status' = "ended"
    /\ UNCHANGED <<prog, tiesKept, catalog, err, selectorVars, findVars, calcVars, chatVars>>

\* if input == "" { continue }
ChatBlank ==
    /\ ChatPrompt
    /\ \E line \in BlankLines \cup TextLines \cup CommandLines : TrimSpace(line) = <<>>
    /\ Handled("blank")
    /\ UNCHANGED <<prog, tiesKept, catalog, err, selectorVars, findVars, calcVars, chatVars,
                   status>>

\* a "/clear" that keeps the first message whatever its role
clearKeepsFirst(ms) == SubSeq(ms, 1, Min(1, Len(ms)))

\* handleCommand, case "/clear": the messages kept
clearMessages(ms) ==
    IF Len(ms) > 0 /\ ms[1].Role = "system" THEN SubSeq(ms, 1, 1) ELSE <<>>

\* a handler that ends the session on a command it does not know
handleCommandStrict(cmd) ==
    ToLower(cmd) \in {<<"/", "c", "l", "e", "a", "r">>, <<"/", "c", "o", "s", "t">>,
                      <<"/", "h", "e", "l", "p">>}

\* handleCommand: what it returns
handleCommand(cmd) ==
    ToLower(cmd) \notin {<<"/", "q", "u", "i", "t">>, <<"/", "e", "x", "i", "t">>, <<"/", "q">>}

\* the line as typed, for lastMsg
Typed(line) ==
    CASE line = <<"/", "q", "u", "i", "t">> -> "/quit"
      [] line = <<"/", "e", "x", "i", "t">> -> "/exit"
      [] line = <<"/", "q">> -> "/q"
      [] line = <<"/", "Q">> -> "/Q"
      [] line = <<"/", "c", "l", "e", "a", "r">> -> "/clear"
      [] line = <<" ", "/", "c", "l", "e", "a", "r">> -> " /clear"
      [] line = <<"/", "c", "o", "s", "t">> -> "/cost"
      [] line = <<"/", "h", "e", "l", "p">> -> "/help"
      [] line = <<"/", "z">> -> "/z"
      [] line = <<"/">> -> "/"
      [] OTHER -> "message"

\* if strings.HasPrefix(input, "/") { handleCommand(session, input) }
ChatCommand ==
    /\ ChatPrompt
    /\ \E line \in BlankLines \cup TextLines \cup CommandLines :
          LET input == TrimSpace(line)
          IN /\ IsCommand(input)
             /\ messages' = IF ToLower(input) = <<"/", "c", "l", "e", "a", "r">>
                            THEN clearMessages(messages) ELSE messages
             /\ status' = IF handleCommand(input) THEN "prompt" ELSE "ended"
             /\ Handled(Typed(line))
    /\ UNCHANGED <<prog, tiesKept, catalog, err, selectorVars, findVars, calcVars,
                   totalTokens, totalCost, exchanges>>

\* a user message: appended to the history, then sendMessage makes the API call
ChatSend ==
    /\ ChatPrompt
    /\ \E line \in BlankLines \cup TextLines \cup CommandLines :
          LET input == TrimSpace(line)
          IN /\ input # <<>> /\ ~IsCommand(input)
             /\ messages' = Append(messages, [Role |-> "user", Content |-> input])
    /\ status' = "calling"
    /\ Handled("message")
    /\ UNCHANGED <<prog, tiesKept, catalog, err, selectorVars, findVars, calcVars,
                   totalTokens, totalCost, exchanges>>

\* resp.Usage of a completion
Usages ==
    {[PromptTokens |-> 0, CompletionTokens |-> 0],
     [PromptTokens |-> 1000, CompletionTokens |-> 500]}

\* a cost that leaves the output tokens out
chatCalculateCostInputOnly(model, inputTokens, outputTokens) ==
    inputTokens * model.CostPer1MIn

\* calculateCost(session.model, inputTokens, outputTokens), in 1/Unit
\* millionths of a dollar
chatCalculateCost(model, inputTokens, outputTokens) ==
    inputTokens * model.CostPer1MIn + outputTokens * model.CostPer1MOut

\* a failed call that leaves the user message in the history
rollbackNothing(ms) == ms

\* session.messages = session.messages[:len(session.messages)-1]
rollback(ms) == SubSeq(ms, 1, Len(ms) - 1)

\* sendMessage fails: the call returned an error, or a response without choices
ChatReplyFails ==
    /\ prog = "chat-bot" /\ status = "calling"
    /\ lastMsg' \in {"API call failed", "no response from model"}
    /\ messages' = rollback(messages)
    /\ status' = "prompt"
    /\ UNCHANGED <<prog, tiesKept, catalog, err, selectorVars, findVars, calcVars,
                   totalTokens, totalCost, exchanges, prev>>

\* sendMessage returns the reply and its usage
ChatReply ==
    /\ prog = "chat-bot" /\ status = "calling"
    /\ Len(exchanges) < MaxExchanges
    /\ \E usage \in Usages :
          LET cost == chatCalculateCost(found[1].model, usage.PromptTokens,
                                        usage.CompletionTokens)
          IN /\ messages' = Append(messages, [Role |-> "assistant", Content |-> <<"o", "k">>])
             /\ totalTokens' = totalTokens + usage.PromptTokens + usage.CompletionTokens
             /\ totalCost' = totalCost + cost
             /\ exchanges' = Append(exchanges,
                                    [inputTokens |-> usage.PromptTokens,
                                     outputTokens |-> usage.CompletionTokens,
                                     cost |-> cost])
    /\ lastMsg' = "reply"
    /\ status' = "prompt"
    /\ UNCHANGED <<prog, tiesKept, catalog, err, selectorVars, findVars, calcVars, prev>>

----------------------------------------------------------------------------
\* list-models: sortModels and the output switch of main

\* sort.Slice on what less compares, the key
IsSortedByKey(s) == \A i \in 1..(Len(s) - 1) : ~(s[i + 1].key < s[i].key)

RECURSIVE InsertByKey(_, _)
InsertByKey(x, s) ==
    IF s = <<>> THEN <<x>>
    ELSE IF x.key < s[1].key THEN <<x>> \o s
    ELSE <<s[1]>> \o InsertByKey(x, Tail(s))

RECURSIVE InsertionSortByKey(_)
InsertionSortByKey(s) ==
    IF s = <<>> THEN <<>>
    ELSE InsertByKey(s[Len(s)], InsertionSortByKey(SubSeq(s, 1, Len(s) - 1)))

SortSliceByKey(s) ==
    IF IsSortedByKey(s) THEN s
    ELSE IF tiesKept THEN InsertionSortByKey(s)
    ELSE InsertionSortByKey(Reverse(s))

\* models[i].Name < models[j].Name: the names of the pool in alphabetical order
NameRank(m) ==
    CASE m.ID = "free" -> 1 [] m.ID = "long" -> 2 [] m.ID = "mini" -> 3
      [] m.ID = "pro" -> 4 [] m.ID = "std" -> 5 [] m.ID = "ultra" -> 6

\* sortModels: by cost upwards, by context window downwards, default by name
sortModels(ms, sortBy) ==
    LET by == ToLower(sortBy)
        key(m) == IF by = <<"c", "o", "s", "t">> THEN m.CostPer1MIn
                  ELSE IF by = <<"c", "o", "n", "t", "e", "x", "t">> THEN 0 - m.ContextWindow
                  ELSE NameRank(m)
        sorted == SortSliceByKey([i \in 1..Len(ms) |-> [key |-> key(ms[i]), m |-> ms[i]]])
    IN [i \in 1..Len(ms) |-> sorted[i].m]

\* main: switch strings.ToLower(*outputFormat)
listOutput(format) ==
    IF ToLower(format) \in {<<"j", "s", "o", "n">>, <<"c", "s", "v">>,
                            <<"t", "a", "b", "l", "e">>}
    THEN "done" ELSE "fatal"

\* sortModels(models, *sortBy), then the output in the requested format
ListSort ==
    /\ prog = "list-models" /\ status = "sort"
    /\ filtered' = sortModels(filtered, flags.sort)
    /\ status' = listOutput(flags.format)
    /\ Handled("")
    /\ UNCHANGED <<prog, tiesKept, catalog, err, calcVars, chatVars, selectorVars, flags,
                   models, findStep, currentInput>>

----------------------------------------------------------------------------
\* find-models: main with --compare, compareModelsList

\* for _, p := range providers, from i on: the provider's first model that
\* matches name is appended; the break leaves the loop over p.Models only
RECURSIVE FirstOfEachProvider(_, _, _)
FirstOfEachProvider(providers, i, name) ==
    IF i > Len(providers) THEN <<>>
    ELSE LET j == ScanModels(providers[i].Models, 1, name)
         IN (IF j > 0
             THEN <<[model |-> providers[i].Models[j], provider |-> providers[i]]>>
             ELSE <<>>)
            \o FirstOfEachProvider(providers, i + 1, name)

\* compareModelsList: the models it goes on to display
RECURSIVE compareModelsList(_, _)
compareModelsList(providers, modelNames) ==
    IF modelNames = <<>> THEN <<>>
    ELSE FirstOfEachProvider(providers, 1, TrimSpace(Head(modelNames)))
         \o compareModelsList(providers, Tail(modelNames))

FindCompareInit ==
    /\ prog = "find-models --compare"
    /\ tiesKept \in BOOLEAN
    /\ err = "nil"
    /\ catalog \in ProviderCatalogs
    /\ SelectorIdle /\ FindIdle /\ ChatIdle
    /\ args \in [compare : SeqsUpTo(CompareNames, MaxNames) \ {<<>>}]
    /\ results = <<>>
    /\ found = nil
    /\ status = "start"
    /\ lastMsg = ""
    /\ prev = NoSnapshot

\* main: if *compareModels != "" { compareModelsList(providers, ...) }
FindCompare ==
    /\ prog = "find-models --compare" /\ status = "start"
    /\ results' = compareModelsList(catalog, args.compare)
    /\ status' = "done"
    /\ Handled("")
    /\ UNCHANGED <<prog, tiesKept, catalog, err, selectorVars, findVars, chatVars, args,
                   found>>

----------------------------------------------------------------------------
\* every main: client.GetProviders returned an error

Tools ==
    {"model-selector", "find-models", "find-models --interactive", "list-models",
     "list-providers", "cost-calculator", "model-info", "chat-bot"}

FetchErrors == {"ErrNotModified", "unavailable"}

\* a run whose flags took main as far as the fetch, which fails
FetchFailedInit ==
    /\ prog \in Tools
    /\ tiesKept \in BOOLEAN
    /\ err \in FetchErrors
    /\ catalog = <<>>
    /\ SelectorIdle /\ FindIdle /\ CalcIdle /\ ChatIdle
    /\ status = "fetch"
    /\ lastMsg = ""
    /\ prev = NoSnapshot

\* what a main does with the error: the chat bot has one branch, log.Fatalf;
\* the others log "Data not modified (cached)" and return on ErrNotModified
fetchFailed(tool, e) ==
    IF tool = "chat-bot" THEN "fatal"
    ELSE IF e = "ErrNotModified" THEN "done"
    ELSE "fatal"

\* if err != nil { ... }
FetchFailed ==
    /\ status = "fetch"
    /\ status' = fetchFailed(prog, err)
    /\ Handled("")
    /\ UNCHANGED <<prog, tiesKept, catalog, err, selectorVars, findVars, calcVars, chatVars>>

----------------------------------------------------------------------------
Init ==
    \/ SelectorInit
    \/ FindSearchInit
    \/ FindWizardInit
    \/ ListInit
    \/ CostInit
    \/ ModelInfoInit
    \/ ChatInit
    \/ FindCompareInit
    \/ FetchFailedInit

Next ==
    \/ SelectorCancel
    \/ SelectorNavigate
    \/ SelectorIgnore
    \/ SelectorEnter
    \/ FindFilter
    \/ FindDisplay
    \/ FindCancel
    \/ FindEnter
    \/ FindBackspace
    \/ FindType
    \/ FindIgnore
    \/ ListFilter
    \/ ListSort
    \/ CostBatch
    \/ CostCompare
    \/ CostSingle
    \/ ModelInfoMain
    \/ ChatMain
    \/ ChatEOF
    \/ ChatBlank
    \/ ChatCommand
    \/ ChatSend
    \/ ChatReplyFails
    \/ ChatReply
    \/ FindCompare
    \/ FetchFailed

Spec == Init /\ [][Next]_vars

----------------------------------------------------------------------------
\* Properties

Selector == prog = "model-selector"

\* the last Update was Enter in step s
EnteredFrom(s) == Selector /\ lastMsg = "enter" /\ prev.step = s

\* position in list s of the entry of provider p
PosOf(s, p) == CHOOSE k \in 1..Len(s) : s[k].provider = p

\* C1: ranking is a stable descending sort: two candidates with equal scores
\* keep, after calculateScores, the relative order they had before it.
C1_RankingIsStable ==
    EnteredFrom(stepVision) =>
        \A i, j \in 1..Len(allModels) :
            (i < j /\ allModels[i].score = allModels[j].score) =>
                PosOf(prev.allModels, allModels[i].provider)
                    < PosOf(prev.allModels, allModels[j].provider)

\* C2: Enter in ShowResults ends the session normally, whichever item is
\* highlighted; it never fails and never moves to a further state.
C2_ConfirmInResultsQuits ==
    EnteredFrom(stepResults) => (status = "quit" /\ step = stepResults)

\* C3: the step only moves forward along the five states, one state at a
\* time: no Update lowers it or skips a state, and Enter before ShowResults
\* advances to exactly the next state.
C3_StepMovesForwardByOne ==
    Selector =>
        /\ step \in {stepBudget, stepContext, stepReasoning, stepVision, stepResults}
        /\ lastMsg # "" =>
              /\ step \in {prev.step, prev.step + 1}
              /\ (lastMsg = "enter" /\ prev.step # stepResults) => step = prev.step + 1
              /\ lastMsg # "enter" => step = prev.step

C3_Witness == EnteredFrom(stepVision) /\ step = stepResults

\* C4: in ShowResults the ranked list is the whole original candidate set,
\* each entry scored by the requirement-weighted policy, in non-increasing
\* score order; the preview list holds its first min(5, n) entries and the
\* detailed view its first min(3, n), the full list being kept.
C4_ResultsRankFullSet ==
    (Selector /\ step = stepResults) =>
        LET n == Len(catalog) IN
        /\ Len(allModels) = n
        /\ \A p \in 1..n :
              /\ Cardinality({i \in 1..n : allModels[i].provider = p}) = 1
              /\ allModels[PosOf(allModels, p)].model = catalog[p]
        /\ \A i \in 1..(n - 1) : allModels[i].score >= allModels[i + 1].score
        /\ Len(items) = (IF n < 5 THEN n ELSE 5)
        /\ \A i \in 1..Len(items) :
              items[i] = <<allModels[i].model.ID, allModels[i].provider, allModels[i].score>>
        /\ Len(viewResults(allModels)) = (IF n < 3 THEN n ELSE 3)
        /\ \A i \in 1..Len(viewResults(allModels)) : viewResults(allModels)[i] = allModels[i]

\* more than five candidates, one of them over budget and lacking reasoning
C4_Witness ==
    /\ Selector /\ step = stepResults
    /\ Len(allModels) > 5
    /\ \E i \in 1..Len(allModels) :
          /\ allModels[i].score < 0
          /\ allModels[i].model.CostPer1MIn > requirements.budget
          /\ requirements.budget > 0

\* C5: Ctrl-C and Esc are accepted in every state of both wizards and end
\* the session at once: the step, the requirements, the typed input and the
\* candidate lists (order and scores) are what they were before the key.
C5_Wizard == prog \in {"model-selector", "find-models --interactive"}

C6_BudgetValues == << 0, Unit \div 2, Unit, 5 * Unit, 10 * Unit, 1000 * Unit >>
C6_ContextValues == << 0, 32000, 100000, 200000, 400000 >>

C6_ConfirmRecordsChoice ==
    /\ EnteredFrom(stepBudget) =>
          requirements = [prev.requirements EXCEPT !.budget = C6_BudgetValues[prev.cursor + 1]]
    /\ EnteredFrom(stepContext) =>
          requirements =
              [prev.requirements EXCEPT !.contextSize = C6_ContextValues[prev.cursor + 1]]
    /\ EnteredFrom(stepReasoning) =>
          requirements = [prev.requirements EXCEPT !.reasoning = (prev.cursor = 0)]
    /\ EnteredFrom(stepVision) =>
          requirements = [prev.requirements EXCEPT !.vision = (prev.cursor = 0)]

\* the last budget tier, then later a "yes" confirmed with the budget kept
C6_Witness ==
    /\ EnteredFrom(stepVision)
    /\ prev.cursor = 0
    /\ requirements.vision
    /\ requirements.budget = 1000 * Unit
    /\ requirements.contextSize = 400000

\* the search has filtered and not yet ranked its matches
C7_Filtered ==
    /\ prog = "find-models"
    /\ status = "display" \/ (status = "done" /\ filtered = <<>>)

C7_Satisfies(mm) ==
    /\ flags.maxCost > 0 => mm.model.CostPer1MIn <= flags.maxCost
    /\ flags.minContext > 0 => mm.model.ContextWindow >= flags.minContext
    /\ flags.reasoning => mm.model.CanReason
    /\ flags.vision => mm.model.SupportsImages

\* C7: filterModels keeps exactly the candidates that satisfy every active
\* predicate; a zero or false constraint removes nobody.
C7_FilterKeepsExactlyMatches ==
    C7_Filtered =>
        /\ \A i \in 1..Len(filtered) : C7_Satisfies(filtered[i])
        /\ \A k \in 1..Len(models) :
              C7_Satisfies(models[k]) => \E i \in 1..Len(filtered) : filtered[i] = models[k]
        /\ (flags.maxCost <= 0 /\ flags.minContext <= 0 /\ ~flags.reasoning /\ ~flags.vision)
              => Len(filtered) = Len(models)

\* both numeric filters active, one candidate priced exactly at the limit
\* kept and another removed
C7_Witness ==
    /\ C7_Filtered
    /\ flags.maxCost > 0 /\ flags.minContext > 0
    /\ \E i \in 1..Len(filtered) : filtered[i].model.CostPer1MIn = flags.maxCost
    /\ Len(filtered) < Len(models)

RECURSIVE IsSubsequence(_, _)
IsSubsequence(a, b) ==
    IF a = <<>> THEN TRUE
    ELSE IF b = <<>> THEN FALSE
    ELSE IF a[1] = b[1] THEN IsSubsequence(Tail(a), Tail(b))
    ELSE IsSubsequence(a, Tail(b))

\* C8: the output of filterModels is a subsequence of its input, no survivor
\* twice, and the input list is what it was before the call.
C8_FilterIsStableAndPure ==
    /\ C7_Filtered =>
          /\ IsSubsequence(filtered, models)
          /\ \A i, j \in 1..Len(filtered) :
                i < j => filtered[i].provider < filtered[j].provider
    /\ prog \in {"find-models", "find-models --interactive"} =>
          models = CollectModelMatches(catalog)
    /\ (prog = "list-models" /\ status = "sort") =>
          /\ IsSubsequence(filtered, models)
          /\ models = catalog

\* survivors that are not a prefix of the input: the first candidate was
\* removed and two later ones were kept
C8_Witness ==
    /\ C7_Filtered
    /\ Len(filtered) >= 2
    /\ filtered[1].provider > 1
    /\ Len(filtered) < Len(models)

\* C9: filtering the result of filterModels again with the same constraints
\* returns the same list.
C9_FilterIsIdempotent ==
    C7_Filtered =>
        filterModels(filtered, flags.maxCost, flags.minContext,
                     flags.reasoning, flags.vision).filtered = filtered

\* a first pass that removed two neighbours and kept others
C9_Witness ==
    /\ C7_Filtered
    /\ Len(filtered) >= 1
    /\ \E k \in 1..(Len(models) - 1) :
          ~C7_Satisfies(models[k]) /\ ~C7_Satisfies(models[k + 1])

\* C10: the requirement-weighted score is 100, -100 when a budget is set and
\* the cost exceeds it, else +30 when the cost is at most half the budget;
\* +20 when the context window reaches the minimum, else -50; +25 / -50 for
\* having / lacking reasoning when required; the same for vision; and the
\* reasons are the labels of the triggered rules in that order.
C10_Over(mm) == requirements.budget > 0 /\ mm.model.CostPer1MIn > requirements.budget
C10_Under(mm) == ~C10_Over(mm) /\ 2 * mm.model.CostPer1MIn <= requirements.budget
C10_Meets(mm) == mm.model.ContextWindow >= requirements.contextSize

C10_Score(mm) ==
    100 + (IF C10_Over(mm) THEN -100 ELSE 0) + (IF C10_Under(mm) THEN 30 ELSE 0)
        + (IF C10_Meets(mm) THEN 20 ELSE -50)
        + (IF requirements.reasoning THEN (IF mm.model.CanReason THEN 25 ELSE -50) ELSE 0)
        + (IF requirements.vision THEN (IF mm.model.SupportsImages THEN 25 ELSE -50) ELSE 0)

C10_Reasons(mm) ==
    (IF C10_Over(mm) THEN <<"Over budget">> ELSE <<>>)
    \o (IF C10_Under(mm) THEN <<"Well under budget">> ELSE <<>>)
    \o (IF C10_Meets(mm) THEN <<"Meets context requirement">>
        ELSE <<"Below context requirement">>)
    \o (IF ~requirements.reasoning THEN <<>>
        ELSE IF mm.model.CanReason THEN <<"Has reasoning">> ELSE <<"No reasoning">>)
    \o (IF ~requirements.vision THEN <<>>
        ELSE IF mm.model.SupportsImages THEN <<"Has vision">> ELSE <<"No vision">>)

C10_RequirementWeightedScore ==
    (Selector /\ step = stepResults) =>
        \A i \in 1..Len(allModels) :
            /\ allModels[i].score = C10_Score(allModels[i])
            /\ allModels[i].reasons = C10_Reasons(allModels[i])

\* every rule fires somewhere in one ranking: an entry over budget, one well
\* under it, one between, one below the context minimum
C10_Witness ==
    /\ Selector /\ step = stepResults
    /\ requirements.reasoning /\ requirements.vision
    /\ \E i, j, k \in 1..Len(allModels) :
          /\ allModels[i].reasons[1] = "Over budget"
          /\ allModels[j].reasons[1] = "Well under budget"
          /\ allModels[k].reasons[1] = "Below context requirement"
          /\ Len(allModels[j].reasons) = 4

----------------------------------------------------------------------------
\* C11: the simple policy of find-models scores every model
\* 100 - min(costPer1MIn / 10, 50) + (20 if contextWindow >= 200000, else 10
\* if contextWindow >= 100000, else 0) + 15 if it reasons + 10 if it sees
\* images; so of two models that differ in context window only, the one with
\* 200000 tokens or more never scores below the one in [100000, 200000).
\* Scores are counted in 1/ScoreUnit points, where a cost of c money units is
\* c / 10 dollars' worth of points, that is c score units.

C11_Scored ==
    \/ prog = "find-models" /\ status = "done" /\ Len(filtered) > 0
    \/ prog = "find-models --interactive" /\ findStep = findStepResults

C11_Penalty(m) ==
    IF m.CostPer1MIn >= 500 * Unit THEN 50 * ScoreUnit ELSE m.CostPer1MIn

C11_Bonus(m) ==
    (IF m.ContextWindow < 100000 THEN 0
     ELSE IF m.ContextWindow < 200000 THEN 10 ELSE 20)
    + (IF m.CanReason THEN 15 ELSE 0) + (IF m.SupportsImages THEN 10 ELSE 0)

C11_SameButContext(a, b) ==
    /\ a.CostPer1MIn = b.CostPer1MIn
    /\ a.CanReason = b.CanReason
    /\ a.SupportsImages = b.SupportsImages

C11_SimplePolicyScore ==
    C11_Scored =>
        /\ \A i \in 1..Len(filtered) :
              filtered[i].score = 100 * ScoreUnit - C11_Penalty(filtered[i].model)
                                  + C11_Bonus(filtered[i].model) * ScoreUnit
        /\ \A i, j \in 1..Len(filtered) :
              (/\ C11_SameButContext(filtered[i].model, filtered[j].model)
               /\ filtered[i].model.ContextWindow >= 200000
               /\ filtered[j].model.ContextWindow >= 100000
               /\ filtered[j].model.ContextWindow < 200000)
              => filtered[i].score >= filtered[j].score

\* one scored list holds a free model, a model over the penalty ceiling and
\* two models that differ in context window only
C11_Witness ==
    /\ C11_Scored
    /\ \E i, j, k, l \in 1..Len(filtered) :
          /\ filtered[i].model.CostPer1MIn = 0
          /\ filtered[j].model.CostPer1MIn > 500 * Unit
          /\ filtered[j].score = 95 * ScoreUnit
          /\ C11_SameButContext(filtered[k].model, filtered[l].model)
          /\ filtered[k].model.ContextWindow >= 200000
          /\ filtered[l].model.ContextWindow >= 100000
          /\ filtered[l].model.ContextWindow < 200000
          /\ filtered[k].score = filtered[l].score + 10 * ScoreUnit

----------------------------------------------------------------------------
\* C12: ranking is deterministic: scoring and ranking an unchanged candidate
\* set again gives the identical ordered list, ties included. Every re-render
\* of the find-models results step (View calls scoreModels on the list it
\* ranked before) leaves the list as it was, scoreModels applied to its own
\* output returns it, and so does calculateScores with the same requirements.

C12_RankingIsDeterministic ==
    /\ (/\ prog = "find-models --interactive"
        /\ findStep = findStepResults
        /\ prev.findStep = findStepResults) => filtered = prev.filtered
    /\ C11_Scored => scoreModels(filtered).scored = filtered
    /\ (Selector /\ step = stepResults) =>
           calculateScores(allModels, requirements) = allModels

\* a results step rendered again, with two candidates of equal score, in a
\* build whose sort does not keep the order of ties
C12_Witness ==
    /\ prog = "find-models --interactive"
    /\ findStep = findStepResults
    /\ prev.findStep = findStepResults
    /\ lastMsg \in {"resize", "1"}
    /\ ~tiesKept
    /\ \E i, j \in 1..Len(filtered) :
          i < j /\ filtered[i].score = filtered[j].score

----------------------------------------------------------------------------
\* C13: match candidates are never mutated in place: after scoreModels or
\* calculateScores returns, the list the caller passed in (the filter result
\* that main hands to displayMatches, the wizard's allModels) has the element
\* order and the score and reasons fields it had before the call.

C13_CandidatesNotMutated ==
    /\ (prog = "find-models" /\ status = "done" /\ Len(prev.filtered) > 0) =>
           filtered = prev.filtered
    /\ (Selector /\ EnteredFrom(stepVision)) => allModels = prev.allModels

----------------------------------------------------------------------------
\* C14: for every resolved model and scenario calculateCost returns
\* inputCost = (cachedRatio * inputTokens * cachedInputPrice
\*              + (1 - cachedRatio) * inputTokens * inputPrice) / 1,000,000,
\* outputCost = outputTokens * outputPrice / 1,000,000 whatever the cached
\* ratio (the cached output price is never used) and totalCost = inputCost +
\* outputCost; prices 2.50 / 1.25 cached / 10 out with 1000 input tokens, 500
\* output tokens and cachedRatio 0.5 give 0.001875, 0.005 and 0.006875.

CostRan == prog = "cost-calculator" /\ err = "nil" /\ status # "start"

\* the catalog entry a result names
C14_ModelOf(r) ==
    CHOOSE m \in UNION {{p.Models[j] : j \in 1..Len(p.Models)} :
                        p \in {q \in {catalog[i] : i \in 1..Len(catalog)} :
                                 q.Name = r.Provider}} : m.Name = r.Model

C14_Priced(r, inputTokens, outputTokens, cachedRatio) ==
    LET m == C14_ModelOf(r)
    IN /\ r.InputCost = cachedRatio * inputTokens * m.CostPer1MInCached
                        + (RatioDen - cachedRatio) * inputTokens * m.CostPer1MIn
       /\ r.OutputCost = outputTokens * m.CostPer1MOut * RatioDen
       /\ r.TotalCost = r.InputCost + r.OutputCost

C14_Example(r, inputTokens, outputTokens, cachedRatio) ==
    /\ C14_ModelOf(r).CostPer1MIn * 2 = 5 * Unit
    /\ C14_ModelOf(r).CostPer1MInCached * 4 = 5 * Unit
    /\ C14_ModelOf(r).CostPer1MOut = 10 * Unit
    /\ inputTokens = 1000 /\ outputTokens = 500 /\ cachedRatio * 2 = RatioDen

C14_CostFormula ==
    CostRan =>
        /\ args.batch = <<>> =>
              \A k \in 1..Len(results) :
                 /\ C14_Priced(results[k], args.input, args.output, args.cached)
                 /\ C14_Example(results[k], args.input, args.output, args.cached) =>
                       /\ results[k].InputCost = 1875 * MicroDollar
                       /\ results[k].OutputCost = 5000 * MicroDollar
                       /\ results[k].TotalCost = 6875 * MicroDollar
        /\ args.batch # <<>> =>
              \A k \in 1..Len(results) :
                 \E n \in 1..Len(args.batch[1].scenarios) :
                    LET s == args.batch[1].scenarios[n]
                    IN C14_Priced(results[k], s.InputTokens, s.OutputTokens,
                                  s.CachedRatio)

\* the example of the claim, computed in single mode, and a result with a
\* cached ratio above zero for a model whose cached output price differs
C14_Witness ==
    /\ CostRan /\ args.batch = <<>> /\ args.compare = <<>>
    /\ Len(results) = 1
    /\ C14_Example(results[1], args.input, args.output, args.cached)
    /\ results[1].TotalCost = 6875 * MicroDollar
    /\ C14_ModelOf(results[1]).CostPer1MOutCached # C14_ModelOf(results[1]).CostPer1MOut

----------------------------------------------------------------------------
\* C15: every CostResult the cost calculator produces, in single, compare or
\* batch mode, has inputCost >= 0, outputCost >= 0 and totalCost >= 0, for
\* every scenario the tool accepts and processes, over a catalog whose prices
\* are not negative.

C15_CostsNonNegative ==
    (prog = "cost-calculator" /\ status = "done") =>
        \A k \in 1..Len(results) :
           /\ results[k].InputCost >= 0
           /\ results[k].OutputCost >= 0
           /\ results[k].TotalCost >= 0

----------------------------------------------------------------------------
\* C16: batch processing isolates lookup failures: processBatch produces
\* exactly one CostResult per scenario whose model resolves, in scenario
\* order, skips every scenario whose model does not resolve and never aborts
\* because of one; a two-entry batch with one unknown model yields exactly
\* one result, for the known model.

BatchRan ==
    /\ prog = "cost-calculator" /\ err = "nil" /\ status # "start"
    /\ args.batch # <<>> /\ args.batch[1].read = "ok"

\* some model of the catalog matches the token
Resolves(token) ==
    \E i \in 1..Len(catalog) : \E j \in 1..Len(catalog[i].Models) :
       MatchesToken(catalog[i].Models[j], token)

C16_ScenarioResolves(s) == Resolves(s.Model)

C16_Resolving == SelectSeq(args.batch[1].scenarios, C16_ScenarioResolves)

C16_BatchIsolatesFailures ==
    BatchRan =>
        /\ Len(results) = Len(C16_Resolving)
        /\ \A k \in 1..Len(results) :
              LET s == C16_Resolving[k]
              IN <<results[k]>> = calculateCost(catalog, s.Model, s.InputTokens,
                                                s.OutputTokens, s.CachedRatio)
        /\ status = "fatal" => results # <<>> /\ displayCostResult(args.format) = "fatal"

\* a batch of an unknown model followed by a known one: one result, displayed
C16_Witness ==
    /\ BatchRan /\ status = "done"
    /\ Len(args.batch[1].scenarios) = 2
    /\ ~Resolves(args.batch[1].scenarios[1].Model)
    /\ Resolves(args.batch[1].scenarios[2].Model)
    /\ Len(results) = 1

----------------------------------------------------------------------------
\* C17: in comparison mode the cost calculator applies the shared input and
\* output token counts and cached ratio to every listed model, skips the
\* names that do not resolve, and returns the resolved results ordered by
\* non-decreasing total cost, a permutation of the resolved results.

CompareRan ==
    /\ prog = "cost-calculator" /\ err = "nil" /\ status # "start"
    /\ args.batch = <<>> /\ args.compare # <<>>

C17_NameResolves(name) == Resolves(TrimSpace(name))

\* the estimates of the names that resolve, in the order of the list
C17_Resolved ==
    LET names == SelectSeq(args.compare, C17_NameResolves)
    IN [k \in 1..Len(names) |->
           calculateCost(catalog, TrimSpace(names[k]), args.input, args.output,
                         args.cached)[1]]

C17_Count(s, x) == Cardinality({k \in 1..Len(s) : s[k] = x})

C17_ComparisonIsSorted ==
    CompareRan =>
        /\ Len(results) = Len(C17_Resolved)
        /\ \A k \in 1..Len(results) :
              /\ C17_Count(results, results[k]) = C17_Count(C17_Resolved, results[k])
              /\ C14_Priced(results[k], args.input, args.output, args.cached)
        /\ \A k \in 1..(Len(results) - 1) :
              results[k].TotalCost <= results[k + 1].TotalCost

\* two names that resolve, the dearer listed first and the cheaper written
\* with a space to trim: the results come out cheaper first
C17_Witness ==
    /\ CompareRan /\ status = "done"
    /\ Len(args.compare) = 2
    /\ Len(results) = 2
    /\ results[1].TotalCost < results[2].TotalCost
    /\ results[1] = C17_Resolved[2]
    /\ args.compare[2] # TrimSpace(args.compare[2])

----------------------------------------------------------------------------
\* C18: model lookup returns the first model, scanning providers in catalog
\* order and each provider's models in list order, whose id equals the token
\* case-insensitively or whose display name contains the token
\* case-insensitively (so an earlier name-substring match wins over a later
\* exact-id match), paired with its owning provider; when no model matches
\* the outcome is NotFound, no CostResult is produced, and in single-model
\* mode the tool terminates fatally. In model-info the scan is over the
\* providers that --provider leaves in.

C18_IdIs(m, token) ==
    /\ Len(m.ID) = Len(token)
    /\ \A k \in 1..Len(token) : Lower(m.ID[k]) = Lower(token[k])

C18_NameHas(m, token) ==
    \E at \in 1..(Len(m.Name) + 1) :
       \A k \in 1..Len(token) :
          at + k - 1 <= Len(m.Name) /\ Lower(m.Name[at + k - 1]) = Lower(token[k])

\* the catalog positions the lookup may scan that match the token
C18_Matching(token, providerID) ==
    {p \in UNION {{<<i, j>> : j \in 1..Len(catalog[i].Models)} : i \in 1..Len(catalog)} :
        /\ providerID = <<>> \/ ToLower(catalog[p[1]].ID) = ToLower(providerID)
        /\ \/ C18_IdIs(catalog[p[1]].Models[p[2]], token)
           \/ C18_NameHas(catalog[p[1]].Models[p[2]], token)}

C18_IsFirst(p, S) ==
    p \in S /\ \A q \in S : p[1] < q[1] \/ (p[1] = q[1] /\ p[2] <= q[2])

SingleRan ==
    /\ prog = "cost-calculator" /\ err = "nil" /\ status # "start"
    /\ args.batch = <<>> /\ args.compare = <<>>
    /\ args.model # <<>> /\ args.input # 0 /\ args.output # 0

ModelInfoRan ==
    prog = "model-info" /\ err = "nil" /\ status # "start" /\ args.model # <<>>

C18_LookupFirstMatch ==
    /\ SingleRan =>
          LET S == C18_Matching(args.model, <<>>)
          IN IF S = {} THEN results = <<>> /\ status = "fatal"
             ELSE /\ Len(results) = 1
                  /\ \E p \in S :
                        /\ C18_IsFirst(p, S)
                        /\ results[1].Model = catalog[p[1]].Models[p[2]].Name
                        /\ results[1].Provider = catalog[p[1]].Name
    /\ ModelInfoRan =>
          LET S == C18_Matching(args.model, args.provider)
          IN IF S = {} THEN found = nil /\ status = "fatal"
             ELSE /\ status = "done"
                  /\ \E p \in S :
                        /\ C18_IsFirst(p, S)
                        /\ found = <<[model |-> catalog[p[1]].Models[p[2]],
                                      provider |-> catalog[p[1]]]>>

\* the token is the id of a model of the second provider and part of the
\* name of a model of the first, which is the one returned
C18_Witness ==
    /\ SingleRan
    /\ Len(catalog) = 2
    /\ C18_IdIs(catalog[2].Models[1], args.model)
    /\ Len(results) = 1
    /\ results[1].Provider = catalog[1].Name
    /\ results[1].Model = catalog[1].Models[1].Name
    /\ ~C18_IdIs(catalog[1].Models[1], args.model)

----------------------------------------------------------------------------
\* C19: a failed exchange in the chat session is rolled back completely: when
\* the completion call fails (an error or an empty choice list) the message
\* history, the cumulative token count and the cumulative cost are what they
\* were before that user message was appended, and the loop is back at its
\* prompt for the next input.

ChatFailed ==
    prog = "chat-bot" /\ lastMsg \in {"API call failed", "no response from model"}

C19_FailedExchangeRolledBack ==
    ChatFailed =>
        /\ status = "prompt"
        /\ messages = prev.messages
        /\ totalTokens = prev.totalTokens
        /\ totalCost = prev.totalCost

\* a call that fails after an exchange that succeeded, in a session with a
\* system prompt
C19_Witness ==
    /\ ChatFailed
    /\ lastMsg = "no response from model"
    /\ Len(messages) = 3
    /\ totalTokens > 0 /\ totalCost > 0

----------------------------------------------------------------------------
\* C20: at every point where the chat loop accepts the next input, after any
\* sequence of successful exchanges, failed exchanges and commands, the
\* message history is an optional leading system message followed by zero or
\* more (user, assistant) pairs in that order; it never ends with a user
\* message that has no reply.

C20_Pairs(ms) ==
    /\ Len(ms) % 2 = 0
    /\ \A k \in 1..Len(ms) : ms[k].Role = IF k % 2 = 1 THEN "user" ELSE "assistant"

C20_HistoryIsPairs ==
    ChatPrompt =>
        \/ C20_Pairs(messages)
        \/ /\ Len(messages) > 0
           /\ messages[1].Role = "system"
           /\ C20_Pairs(Tail(messages))

\* a session without a system prompt, at its prompt after two exchanges with
\* a /clear between them and a failed call at the end
C20_Witness ==
    /\ ChatPrompt /\ ChatFailed
    /\ Len(exchanges) = 2
    /\ Len(messages) = 2
    /\ messages[1].Role = "user"

----------------------------------------------------------------------------
\* C21: a successful exchange appends exactly the user message and then the
\* assistant reply to the history and adds exactly that exchange's
\* inputTokens + outputTokens and its cost (input tokens at the input price
\* plus output tokens at the output price) to the running totals; so the
\* cumulative tokens and cost are the sums over the successful exchanges
\* only, and they never decrease.

ChatSession == prog = "chat-bot" /\ status \in {"prompt", "calling", "ended"}

C21_Tokens(e) == e.inputTokens + e.outputTokens

C21_Cost(e) ==
    e.inputTokens * found[1].model.CostPer1MIn
    + e.outputTokens * found[1].model.CostPer1MOut

RECURSIVE C21_SumTokens(_)
C21_SumTokens(s) == IF s = <<>> THEN 0 ELSE C21_Tokens(Head(s)) + C21_SumTokens(Tail(s))

RECURSIVE C21_SumCost(_)
C21_SumCost(s) == IF s = <<>> THEN 0 ELSE C21_Cost(Head(s)) + C21_SumCost(Tail(s))

C21_TotalsAreSums ==
    ChatSession =>
        /\ totalTokens = C21_SumTokens(exchanges)
        /\ totalCost = C21_SumCost(exchanges)
        /\ totalTokens >= prev.totalTokens /\ totalCost >= prev.totalCost
        /\ lastMsg = "reply" =>
              LET e == exchanges[Len(exchanges)]
              IN /\ Len(messages) = Len(prev.messages) + 2
                 /\ SubSeq(messages, 1, Len(prev.messages)) = prev.messages
                 /\ messages[Len(messages) - 1].Role = "user"
                 /\ messages[Len(messages)].Role = "assistant"
                 /\ totalTokens = prev.totalTokens + C21_Tokens(e)
                 /\ totalCost = prev.totalCost + C21_Cost(e)

\* a second reply, with tokens to bill on a model that is not free, after a
\* failed call and a /clear that did not touch the totals
C21_Witness ==
    /\ ChatSession /\ lastMsg = "reply"
    /\ Len(exchanges) = 2
    /\ exchanges[2].outputTokens > 0
    /\ found[1].model.CostPer1MOut > 0
    /\ prev.totalCost > 0
    /\ Len(messages) = 2

----------------------------------------------------------------------------
\* C22: chat commands have these effects only: /clear leaves the history
\* equal to its leading system message if it has one and empty otherwise and
\* does not change the running totals; /cost, /help and any unknown command
\* leave history and totals unchanged and the session continues; /quit (also
\* /exit and /q) ends the session without changing history or totals.

C22_TotalsKept == totalTokens = prev.totalTokens /\ totalCost = prev.totalCost

C22_CommandEffects ==
    prog = "chat-bot" =>
        /\ lastMsg \in {"/clear", " /clear"} =>
              /\ status = "prompt" /\ C22_TotalsKept
              /\ messages = IF prev.messages # <<>> /\ prev.messages[1].Role = "system"
                            THEN <<prev.messages[1]>> ELSE <<>>
        /\ lastMsg \in {"/cost", "/help", "/z", "/"} =>
              status = "prompt" /\ C22_TotalsKept /\ messages = prev.messages
        /\ lastMsg \in {"/quit", "/exit", "/q", "/Q"} =>
              status = "ended" /\ C22_TotalsKept /\ messages = prev.messages

\* /clear typed after an exchange in a session with a system prompt: the
\* prompt is all that is left, the totals stay
C22_Witness ==
    /\ prog = "chat-bot" /\ lastMsg = " /clear"
    /\ Len(prev.messages) = 3
    /\ Len(messages) = 1
    /\ totalTokens > 0

----------------------------------------------------------------------------
\* C23: in every tool a catalog fetch that reports "not modified" is handled
\* as a non-error outcome, never as a fatal termination; any other fetch
\* failure is always fatal.

C23_NotModifiedIsNotFatal ==
    (err # "nil" /\ status # "fetch") =>
        IF err = "ErrNotModified" THEN status = "done" ELSE status = "fatal"

----------------------------------------------------------------------------
\* C24: a batch record with an out-of-range numeric field (cachedRatio
\* outside [0, 1], or a negative token count) produces an InvalidScenario
\* error and no CostResult is computed from it: of the records whose model
\* resolves, only those in range yield a result.

C24_InRange(s) ==
    /\ s.CachedRatio >= 0 /\ s.CachedRatio <= RatioDen
    /\ s.InputTokens >= 0 /\ s.OutputTokens >= 0

C24_Acceptable(s) == Resolves(s.Model) /\ C24_InRange(s)

C24_InvalidScenarioRejected ==
    BatchRan => Len(results) <= Len(SelectSeq(args.batch[1].scenarios, C24_Acceptable))

----------------------------------------------------------------------------
\* C25: an unrecognized format or sort selector always ends in an
\* UnsupportedOutputMode error, never in a silent default or a normal exit:
\* for an unknown --sort value in list-models, and for an unknown --format
\* value in the cost calculator on every path, a batch or comparison in
\* which no entry resolved included.

C25_KnownSort(v) ==
    ToLower(v) \in {<<"n", "a", "m", "e">>, <<"c", "o", "s", "t">>,
                    <<"c", "o", "n", "t", "e", "x", "t">>}

C25_KnownFormat(v) ==
    ToLower(v) \in {<<"t", "a", "b", "l", "e">>, <<"j", "s", "o", "n">>, <<"c", "s", "v">>}

C25_UnknownSelectorIsAnError ==
    /\ (/\ prog = "list-models" /\ err = "nil" /\ status \in {"done", "fatal"}
        /\ ~C25_KnownSort(flags.sort)) => status = "fatal"
    /\ (CostRan /\ ~C25_KnownFormat(args.format)) => status = "fatal"

----------------------------------------------------------------------------
\* C26: in find-models compare mode every requested name resolves to at most
\* one (model, provider) pair, the first match in catalog order, so the
\* comparison list has at most one entry per requested name even when
\* several providers hold a matching model.

C26_Resolved == SelectSeq(args.compare, C17_NameResolves)

C26_OneEntryPerName ==
    (prog = "find-models --compare" /\ status = "done") =>
        /\ Len(results) = Len(C26_Resolved)
        /\ \A k \in 1..Len(results) :
              <<results[k]>> = ScanProviders(catalog, 1, TrimSpace(C26_Resolved[k]))

----------------------------------------------------------------------------
\* C27: in find-models interactive mode Enter with an empty input at the
\* max-cost step or at the min-context step skips that step, as the prompt
\* says: the wizard advances to the next step with no constraint applied, so
\* repeated Enter presses reach the results step and then terminate.

C27_EnterOnEmptyInputSkips ==
    (/\ prog = "find-models --interactive" /\ err = "nil"
     /\ lastMsg = "enter"
     /\ prev.findStep \in {findStepMaxCost, findStepMinContext}
     /\ prev.currentInput = <<>>) =>
        /\ findStep = prev.findStep + 1
        /\ filtered = prev.filtered

----------------------------------------------------------------------------
\* C28: when the wizard's budget is 0 (no budget limit) the budget rule
\* contributes nothing: every score is 100 plus the context, reasoning and
\* vision contributions only, and no reasons list holds a budget label,
\* whatever the model's input cost (a cost of 0 included).

C28_BudgetLabels == {"Over budget", "Well under budget"}

C28_ScoreWithoutBudget(mm) ==
    100 + ContextRule(mm.model, requirements).delta
        + ReasoningRule(mm.model, requirements).delta
        + VisionRule(mm.model, requirements).delta

C28_NoBudgetNoBudgetRule ==
    (Selector /\ step = stepResults /\ requirements.budget = 0) =>
        \A i \in 1..Len(allModels) :
            /\ allModels[i].score = C28_ScoreWithoutBudget(allModels[i])
            /\ \A k \in 1..Len(allModels[i].reasons) :
                  allModels[i].reasons[k] \notin C28_BudgetLabels

----------------------------------------------------------------------------
\* C29: in the model-selector wizard an event other than confirm and cancel
\* (up, down, window resize, any other key) changes neither the step nor the
\* requirements nor the candidate list; only the highlighted item may change,
\* and it stays a valid index into the current step's choice values.

C29_OtherEvents == {"up", "down", "resize", "runes"}

C29_FrameKept ==
    (Selector /\ err = "nil" /\ lastMsg \in C29_OtherEvents) =>
        /\ step = prev.step
        /\ requirements = prev.requirements
        /\ allModels = prev.allModels

C29_OnlyTheCursorMoves ==
    /\ C29_FrameKept
    /\ (Selector /\ err = "nil" /\ lastMsg \in C29_OtherEvents) =>
           cursor + 1 \in 1..Len(choices)

----------------------------------------------------------------------------
\* C30: in the cost calculator a comparison or batch entry whose model token
\* is empty after trimming resolves to no model and is skipped like any
\* other unresolved entry: the results are those of the entries whose token
\* is not empty and resolves.

C30_NameCounts(name) == TrimSpace(name) # <<>> /\ Resolves(TrimSpace(name))

C30_ScenarioCounts(s) == s.Model # <<>> /\ Resolves(s.Model)

C30_EmptyTokenSkipped ==
    /\ CompareRan => Len(results) = Len(SelectSeq(args.compare, C30_NameCounts))
    /\ BatchRan =>
          Len(results) = Len(SelectSeq(args.batch[1].scenarios, C30_ScenarioCounts))

====
